---------------------------- MODULE Spec2Model ----------------------------
(***************************************************************************)
(* Ray traversal of a spherical voxel grid: walkSphericalVolume and the    *)
(* hit predicates it calls (spherical_volume_rendering_util.cpp), with the *)
(* Ray of ray.h.                                                           *)
(*                                                                         *)
(* Reals are fixed-point numbers: the integer x stands for x / Scale.      *)
(* NaN and the two infinities of IEEE arithmetic are kept as values of     *)
(* their own, because the code produces them (1.0 / 0.0 in Ray's inverse   *)
(* direction, 0 * inf in timeOfIntersectionAt) and every comparison with   *)
(* NaN is false.  Angles are counted in units of pi/12, so that the angular *)
(* bounds and deltas of the grids used here are exact.                     *)
(***************************************************************************)
EXTENDS Integers, Sequences, FiniteSets, TLC

-----------------------------------------------------------------------------
(* Fixed-point IEEE-like arithmetic *)

\* One unit of a real number: x stands for x / Scale.
Scale == 10000

\* std::numeric_limits<double>::max()
DOUBLE_MAX == 1000000000

PosInf == DOUBLE_MAX + 1
NegInf == 0 - PosInf
NaN == 0 - (PosInf + 1)

\* The largest product the arithmetic below forms; a magnitude beyond the
\* fixed-point range overflows to an infinity.
MaxInt == 2147483647 - Scale

IsNaN(x) == x = NaN
IsInf(x) == x = PosInf \/ x = NegInf
IsFinite(x) == x >= 0 - DOUBLE_MAX /\ x <= DOUBLE_MAX

Abs(x) == IF x < 0 THEN 0 - x ELSE x
Sign(x) == IF x < 0 THEN 0 - 1 ELSE IF x > 0 THEN 1 ELSE 0

\* n / d rounded to the nearest integer, d > 0.
RoundDiv(n, d) ==
    IF n >= 0 THEN (n + (d \div 2)) \div d
    ELSE 0 - (((0 - n) + (d \div 2)) \div d)

\* A finite result beyond the largest double rounds to an infinity.
Rounded(x) == IF x > DOUBLE_MAX THEN PosInf ELSE IF x < 0 - DOUBLE_MAX THEN NegInf ELSE x

\* Comparisons: false as soon as one side is NaN.
FLt(a, b) == a # NaN /\ b # NaN /\ a < b
FLe(a, b) == a # NaN /\ b # NaN /\ a <= b
FGt(a, b) == FLt(b, a)
FGe(a, b) == FLe(b, a)
FEq(a, b) == a # NaN /\ a = b

FNeg(a) == IF a = NaN THEN NaN ELSE 0 - a

\* a + b with an operand that is NaN or infinite.
AddNonFinite(a, b) ==
    IF a = NaN \/ b = NaN THEN NaN
    ELSE IF IsInf(a) /\ IsInf(b) THEN (IF a = b THEN a ELSE NaN)
    ELSE IF IsInf(a) THEN a
    ELSE b

FAdd(a, b) ==
    IF IsFinite(a) /\ IsFinite(b) THEN Rounded(a + b) ELSE AddNonFinite(a, b)

FSub(a, b) ==
    IF IsFinite(a) /\ IsFinite(b) THEN Rounded(a - b) ELSE AddNonFinite(a, FNeg(b))

\* a * b with an operand that is NaN or infinite: 0 * inf is NaN.
MulNonFinite(a, b) ==
    IF a = NaN \/ b = NaN THEN NaN
    ELSE IF a = 0 \/ b = 0 THEN NaN
    ELSE IF Sign(a) * Sign(b) > 0 THEN PosInf ELSE NegInf

FMul(a, b) ==
    IF IsFinite(a) /\ IsFinite(b)
    THEN (IF a = 0 \/ b = 0 THEN 0
          ELSE IF Abs(a) > MaxInt \div Abs(b)
          THEN (IF Sign(a) * Sign(b) > 0 THEN PosInf ELSE NegInf)
          ELSE RoundDiv(a * b, Scale))
    ELSE MulNonFinite(a, b)

\* a / b; 1.0 / 0.0 is +inf, 0.0 / 0.0 is NaN.
FDiv(a, b) ==
    IF a = NaN \/ b = NaN THEN NaN
    ELSE IF IsInf(a) /\ IsInf(b) THEN NaN
    ELSE IF IsInf(a) THEN (IF Sign(a) * Sign(b) >= 0 THEN PosInf ELSE NegInf)
    ELSE IF IsInf(b) THEN 0
    ELSE IF b = 0 THEN (IF a = 0 THEN NaN ELSE IF a > 0 THEN PosInf ELSE NegInf)
    ELSE IF Abs(a) > MaxInt \div Scale
         THEN (IF Sign(a) * Sign(b) > 0 THEN PosInf ELSE NegInf)
    ELSE IF b > 0 THEN RoundDiv(a * Scale, b)
    ELSE RoundDiv((0 - a) * Scale, 0 - b)

\* An int (or bool as 0/1) times a double.
FScale(n, a) ==
    IF a = NaN THEN NaN
    ELSE IF IsInf(a) THEN (IF n = 0 THEN NaN ELSE IF n > 0 THEN a ELSE 0 - a)
    ELSE n * a

\* The largest r in lo..hi with r * r <= n (lo * lo <= n).
RECURSIVE ISqrtIn(_, _, _)
ISqrtIn(n, lo, hi) ==
    IF lo >= hi THEN lo
    ELSE IF ((lo + hi + 1) \div 2) * ((lo + hi + 1) \div 2) <= n
    THEN ISqrtIn(n, (lo + hi + 1) \div 2, hi)
    ELSE ISqrtIn(n, lo, ((lo + hi + 1) \div 2) - 1)

\* Of r and r + 1, the one whose square is nearer to n.
NearestRoot(n, r) == IF (r + 1) * (r + 1) - n < n - r * r THEN r + 1 ELSE r

\* std::sqrt: NaN for a negative argument.
FSqrt(a) ==
    IF a = NaN THEN NaN
    ELSE IF a = PosInf THEN PosInf
    ELSE IF a < 0 THEN NaN
    ELSE NearestRoot(a * Scale, ISqrtIn(a * Scale, 0, 46340))

\* std::min(a, b): b when b < a, else a.
FMin(a, b) == IF FLt(b, a) THEN b ELSE a

FAbs(a) == IF a = NaN THEN NaN ELSE Abs(a)

-----------------------------------------------------------------------------
(* floating_point_comparison_util.h (not in the sources; from the design, 4.2) *)

\* The absolute tolerance of isEqual and lessThan, in units of 1 / Scale.  The
\* relative term of isEqual is below one unit for every magnitude used here.
EpsAbs == 5

isEqual(a, b) == a # NaN /\ b # NaN /\ (a = b \/ FLe(FAbs(FSub(a, b)), EpsAbs))
lessThan(a, b) == FLt(a, FSub(b, EpsAbs))

-----------------------------------------------------------------------------
(* vec3.h (not in the sources): three-component vectors *)

X(p) == p[1]
Y(p) == p[2]
Z(p) == p[3]
VAdd(p, q) == <<FAdd(p[1], q[1]), FAdd(p[2], q[2]), FAdd(p[3], q[3])>>
VSub(p, q) == <<FSub(p[1], q[1]), FSub(p[2], q[2]), FSub(p[3], q[3])>>
VMul(p, s) == <<FMul(p[1], s), FMul(p[2], s), FMul(p[3], s)>>
Dot(p, q) == FAdd(FAdd(FMul(p[1], q[1]), FMul(p[2], q[2])), FMul(p[3], q[3]))
SquaredLength(p) == Dot(p, p)

-----------------------------------------------------------------------------
(* Ray (ray.h) *)

\* The flag the constructor derives from one direction component.
DirIsNonZero(d) == d > 0

\* The component timeOfIntersectionAt works in: the first one flagged non-zero,
\* z when none is.
TimeAxis(x_dir_is_non_zero, y_dir_is_non_zero) ==
    IF x_dir_is_non_zero THEN 1
    ELSE IF y_dir_is_non_zero THEN 2
    ELSE 3

\* Ray::Ray: the flags and the inverse direction are fixed at construction.
Ray(origin, direction) ==
    [origin |-> origin,
     direction |-> direction,
     x_dir_is_non_zero |-> DirIsNonZero(X(direction)),
     y_dir_is_non_zero |-> DirIsNonZero(Y(direction)),
     z_dir_is_non_zero |-> DirIsNonZero(Z(direction)),
     axis |-> TimeAxis(DirIsNonZero(X(direction)), DirIsNonZero(Y(direction))),
     inverse_direction |-> <<FDiv(Scale, X(direction)),
                             FDiv(Scale, Y(direction)),
                             FDiv(Scale, Z(direction))>>]

pointAtParameter(ray, t) == VAdd(ray.origin, VMul(ray.direction, t))

\* Ray::timeOfIntersectionAt(double discriminant_v)
timeOfIntersectionAt(ray, discriminant_v) ==
    FMul(FSub(FAdd(ray.origin[ray.axis], FMul(ray.direction[ray.axis], discriminant_v)),
              ray.origin[ray.axis]),
         ray.inverse_direction[ray.axis])

\* Ray::timeOfIntersectionAt(const BoundVec3 &p): the overload the driver calls
\* with the sphere centre.
timeOfIntersectionAtPoint(ray, p) ==
    FMul(FSub(p[ray.axis], ray.origin[ray.axis]), ray.inverse_direction[ray.axis])

-----------------------------------------------------------------------------
(* SphericalVoxelGrid (consumed; not in the sources, from the design, 3 and 6) *)

\* Angles are integers in units of pi/12; FullCircle is 2 pi.
FullCircle == 24

\* sin of k * pi/12 for k = 0..6, in millionths.
SinMillionths == <<0, 258819, 500000, 707107, 866025, 965926, 1000000>>

\* sin of q * pi/12 for q in 0..11.
SinHalfTurn(q) ==
    RoundDiv(SinMillionths[(IF q <= 6 THEN q ELSE 12 - q) + 1] * (Scale \div 100), 10000)

Sin(a) ==
    IF a % FullCircle < 12 THEN SinHalfTurn(a % 12) ELSE 0 - SinHalfTurn(a % 12)

Cos(a) == Sin(a + 6)

\* <<cosine, sine>> of the n + 1 section bounds from min in steps of delta.
TrigValues(min, delta, n) ==
    [j \in 1..(n + 1) |-> <<Cos(min + (j - 1) * delta), Sin(min + (j - 1) * delta)>>]

\* The points of the section bounds on the sphere of the given radius, in the
\* plane of x and the component c2 of the centre.
BoundPoints(radius, trig, c1, c2) ==
    [j \in DOMAIN trig |->
        <<FAdd(FMul(radius, trig[j][1]), c1), FAdd(FMul(radius, trig[j][2]), c2)>>]

\* The tables the grid holds, from its trigonometric values.  A boundary
\* segment's vector runs from its point on the outermost sphere to the centre
\* (angularHit takes w = p_one - P1 with p_one that point).
GridTables(Nr, Nt, Np, R, C, polarMin, polarMax, aziMin, aziMax, delta_radius, polar_trig, azimuthal_trig, P_max_polar, P_max_azimuthal) ==
    [Nr |-> Nr, Nt |-> Nt, Np |-> Np, R |-> R, C |-> C,
     polarMin |-> polarMin, polarMax |-> polarMax,
     aziMin |-> aziMin, aziMax |-> aziMax,
     delta_radius |-> delta_radius,
     delta_theta |-> (polarMax - polarMin) \div Nt,
     delta_phi |-> (aziMax - aziMin) \div Np,
     delta_radii_sq |->
        [j \in 1..(Nr + 1) |->
            FMul((Nr - (j - 1)) * delta_radius, (Nr - (j - 1)) * delta_radius)],
     polar_trig_values |-> polar_trig,
     azimuthal_trig_values |-> azimuthal_trig,
     P_max_polar |-> P_max_polar,
     P_max_azimuthal |-> P_max_azimuthal,
     center_to_polar_bound |->
        [j \in DOMAIN P_max_polar |->
            <<FSub(X(C), P_max_polar[j][1]), FSub(Y(C), P_max_polar[j][2]), 0>>],
     center_to_azimuthal_bound |->
        [j \in DOMAIN P_max_azimuthal |->
            <<FSub(X(C), P_max_azimuthal[j][1]), 0, FSub(Z(C), P_max_azimuthal[j][2])>>]]

GridTrig(Nr, Nt, Np, R, C, polarMin, polarMax, aziMin, aziMax, polar_trig, azimuthal_trig) ==
    GridTables(Nr, Nt, Np, R, C, polarMin, polarMax, aziMin, aziMax,
               FDiv(R, Nr * Scale), polar_trig, azimuthal_trig,
               BoundPoints(R, polar_trig, X(C), Y(C)),
               BoundPoints(R, azimuthal_trig, X(C), Z(C)))

\* SphericalVoxelGrid::SphericalVoxelGrid
SphericalVoxelGrid(Nr, Nt, Np, R, C, polarMin, polarMax, aziMin, aziMax) ==
    GridTrig(Nr, Nt, Np, R, C, polarMin, polarMax, aziMin, aziMax,
             TrigValues(polarMin, (polarMax - polarMin) \div Nt, Nt),
             TrigValues(aziMin, (aziMax - aziMin) \div Np, Np))

\* The accessors; the containers are indexed from 0.
deltaRadius(grid) == grid.delta_radius
deltaTheta(grid) == grid.delta_theta
deltaPhi(grid) == grid.delta_phi
sphereMaxDiameter(grid) == 2 * grid.R
deltaRadiiSquared(grid, k) == grid.delta_radii_sq[k + 1]
polarTrigValues(grid) == grid.polar_trig_values
azimuthalTrigValues(grid) == grid.azimuthal_trig_values
pMaxPolar(grid, i) == grid.P_max_polar[i + 1]
pMaxAzimuthal(grid, i) == grid.P_max_azimuthal[i + 1]
centerToPolarBound(grid, i) == grid.center_to_polar_bound[i + 1]
centerToAzimuthalBound(grid, i) == grid.center_to_azimuthal_bound[i + 1]

-----------------------------------------------------------------------------
(* spherical_volume_rendering_util.cpp: the helpers of the traversal *)

\* enum VoxelIntersectionType
Radial == 1
Polar == 2
Azimuthal == 3
RadialPolar == 4
RadialAzimuthal == 5
PolarAzimuthal == 6
RadialPolarAzimuthal == 7

\* Every type taken to own the radial index.
OwnsRadialAlways(type) == TRUE

\* The type's owned indices.
OwnsRadial(type) == type \in {Radial, RadialPolar, RadialAzimuthal, RadialPolarAzimuthal}
OwnsPolar(type) == type \in {Polar, RadialPolar, PolarAzimuthal, RadialPolarAzimuthal}
OwnsAzimuthal(type) == type \in {Azimuthal, RadialAzimuthal, PolarAzimuthal, RadialPolarAzimuthal}

\* struct HitParameters
Hit(tMax, tStep) == [tMax |-> tMax, tStep |-> tStep]
NoHit == Hit(DOUBLE_MAX, 0)

Square(x) == FMul(x, x)

\* The loop test of calculateAngularVoxelIDFromPoints (line 58).
ArcTest(d1d2, d3) == FLt(d1d2, d3) \/ isEqual(d1d2, d3)

\* The loop body of calculateAngularVoxelIDFromPoints for the arc between the
\* boundary points Pi and Pj (lines 49-58).
PointInArc(Pi, Pj, p1, p2) ==
    ArcTest(FAdd(FAdd(FAdd(Square(FSub(Pi[1], p1)), Square(FSub(Pi[2], p2))),
                      Square(FSub(Pj[1], p1))), Square(FSub(Pj[2], p2))),
            FAdd(Square(FSub(Pi[1], Pj[1])), Square(FSub(Pi[2], Pj[2]))))

\* The least of a set of indices, and size + 1 when there is none.
FirstArc(hits, size) ==
    IF hits = {} THEN size + 1
    ELSE CHOOSE i \in hits : \A j \in hits : i <= j

\* calculateAngularVoxelIDFromPoints: the first arc that holds the point, and
\* size() + 1 when none does.
calculateAngularVoxelIDFromPoints(angular_max, p1, p2) ==
    FirstArc({i \in 0..(Len(angular_max) - 2) :
                 PointInArc(angular_max[i + 1], angular_max[i + 2], p1, p2)},
             Len(angular_max))

\* Lines 77-82 of initializeAngularVoxelID, r being entry_radius / sqrt(SED).
AngularVoxelIDAt(grid, ray_sphere, angular_max, ray_sphere_2, grid_sphere_2, SED, r) ==
    IF FEq(SED, 0) THEN 0
    ELSE calculateAngularVoxelIDFromPoints(angular_max,
             FSub(X(grid.C), FMul(X(ray_sphere), r)),
             FSub(grid_sphere_2, FMul(ray_sphere_2, r)))

\* Lines 75-82, SED being the squared distance in the plane.
AngularVoxelIDFrom(grid, ray_sphere, angular_max, ray_sphere_2, grid_sphere_2, entry_radius, SED) ==
    AngularVoxelIDAt(grid, ray_sphere, angular_max, ray_sphere_2, grid_sphere_2, SED,
                     FDiv(entry_radius, FSqrt(SED)))

initializeAngularVoxelID(grid, number_of_sections, ray_sphere, angular_max, ray_sphere_2, grid_sphere_2, entry_radius) ==
    IF number_of_sections = 1 THEN 0
    ELSE AngularVoxelIDFrom(grid, ray_sphere, angular_max, ray_sphere_2, grid_sphere_2,
                            entry_radius,
                            FAdd(Square(X(ray_sphere)), Square(ray_sphere_2)))

\* The test both inBounds functions end in.
AngleInBounds(angval, min_bound, max_bound) == angval <= max_bound /\ angval >= min_bound

inBoundsAzimuthal(grid, step, azi_voxel) ==
    AngleInBounds((azi_voxel + 1) * deltaPhi(grid) - Abs(step * deltaPhi(grid)),
                  grid.aziMin, grid.aziMax)

inBoundsPolar(grid, step, pol_voxel) ==
    AngleInBounds((pol_voxel + 1) * deltaTheta(grid) - Abs(step * deltaTheta(grid)),
                  grid.polarMin, grid.polarMax)

\* radialHit never setting radial_step_has_transitioned.
ResultUnflagged(hit, transitioned) == [hit |-> hit, transitioned |-> FALSE]

\* What radialHit hands back: the hit, and the flag it may have set.
RadialResult(hit, transitioned) == [hit |-> hit, transitioned |-> transitioned]

\* Lines 125-126.
RadialHitAt(intersection_t, max_t) ==
    IF FLt(intersection_t, max_t)
    THEN RadialResult(Hit(intersection_t, 0 - 1), TRUE)
    ELSE RadialResult(NoHit, TRUE)

\* radialHit once radial_step_has_transitioned is set (lines 121-126).
RadialHitAfterTransition(ray, grid, current_radial_voxel, v, rsvd_minus_v_squared, t, max_t) ==
    RadialHitAt(timeOfIntersectionAt(ray,
                    FAdd(v, FSqrt(FSub(deltaRadiiSquared(grid, current_radial_voxel - 1),
                                       rsvd_minus_v_squared)))),
                max_t)

\* Lines 138-153.
RadialHitBetween(t_entrance, t_exit, t, max_t) ==
    IF FGt(t_entrance, t) /\ FEq(t_entrance, t_exit)
    THEN RadialResult(Hit(t_entrance, 0), TRUE)
    ELSE IF FGt(t_entrance, t) /\ FLt(t_entrance, max_t)
    THEN RadialResult(Hit(t_entrance, 1), FALSE)
    ELSE IF FLt(t_exit, max_t)
    THEN RadialResult(Hit(t_exit, 0 - 1), TRUE)
    ELSE RadialResult(NoHit, FALSE)

\* Lines 134-153, d_a being the half chord of the shell tried.
RadialHitWithin(ray, d_a, v, t, max_t) ==
    RadialHitBetween(timeOfIntersectionAt(ray, FSub(v, d_a)),
                     timeOfIntersectionAt(ray, FAdd(v, d_a)), t, max_t)

\* Lines 131-133: the squared radius of the shell tried.
ShellTried(grid, previous_idx, rsvd_minus_v_squared) ==
    deltaRadiiSquared(grid,
        previous_idx - (IF FLt(deltaRadiiSquared(grid, previous_idx), rsvd_minus_v_squared)
                        THEN 1 ELSE 0))

\* radialHit before the transition (lines 127-154).
RadialHitBeforeTransition(ray, grid, current_radial_voxel, v, rsvd_minus_v_squared, t, max_t) ==
    RadialHitWithin(ray,
        FSqrt(FSub(ShellTried(grid,
                              IF current_radial_voxel < grid.Nr - 1
                              THEN current_radial_voxel ELSE grid.Nr - 1,
                              rsvd_minus_v_squared),
                   rsvd_minus_v_squared)),
        v, t, max_t)

radialHit(ray, grid, radial_step_has_transitioned, current_radial_voxel, v, rsvd_minus_v_squared, t, max_t) ==
    IF radial_step_has_transitioned
    THEN RadialHitAfterTransition(ray, grid, current_radial_voxel, v,
                                  rsvd_minus_v_squared, t, max_t)
    ELSE RadialHitBeforeTransition(ray, grid, current_radial_voxel, v,
                                   rsvd_minus_v_squared, t, max_t)

\* RaySegment (not in the sources; from the design, 3): the part of the ray
\* between the current time and max_t.
RaySegmentBetween(P1, P2, t1, t2) ==
    [P1 |-> P1, P2 |-> P2, vector |-> VSub(P2, P1), t1 |-> t1, t2 |-> t2]

\* RaySegment's constructor fixes P2 and updateAtTime(t) moves P1.
RaySegment(max_t, ray, t) ==
    RaySegmentBetween(pointAtParameter(ray, t), pointAtParameter(ray, max_t), t, max_t)

\* RaySegment::intersectionTimeAt: the ray time at parameter b of the segment.
intersectionTimeAt(ray_segment, b) ==
    FAdd(ray_segment.t1, FMul(b, FSub(ray_segment.t2, ray_segment.t1)))

\* One boundary side of angularHit, as the code leaves it.
Side(is_collinear, is_intersect, time) ==
    [is_collinear |-> is_collinear, is_intersect |-> is_intersect, t |-> time]

\* Lines 184-191 (min) and 196-203 (max): the parameters a and b decide.
SideAt(is_collinear, a, b, ray_segment, collinear_times) ==
    IF ~(lessThan(a, 0) \/ lessThan(Scale, a) \/ lessThan(b, 0) \/ lessThan(Scale, b))
    THEN Side(is_collinear, TRUE, intersectionTimeAt(ray_segment, b))
    ELSE Side(is_collinear, FALSE, collinear_times[IF is_collinear THEN 2 ELSE 1])

\* Lines 173-204 for one side: the side's time is collinear_times[is_collinear]
\* unless the boundary is not parallel and is intersected.
BoundarySide(perp_uv, perp_uw, perp_vw, ray_segment, collinear_times) ==
    IF isEqual(perp_uv, 0)
    THEN Side(isEqual(perp_uw, 0) /\ isEqual(perp_vw, 0), FALSE,
              collinear_times[IF isEqual(perp_uw, 0) /\ isEqual(perp_vw, 0) THEN 2 ELSE 1])
    ELSE SideAt(FALSE, FMul(perp_vw, FDiv(Scale, perp_uv)),
                FMul(perp_uw, FDiv(Scale, perp_uv)), ray_segment, collinear_times)

\* The sign of lines 236-238 reversed.
CentreStepToReversed(ray, ray_direction_2, current_voxel, far_voxel) ==
    IF FLt(X(ray.direction), 0) \/ FLt(ray_direction_2, 0)
    THEN 0 - Abs(current_voxel - far_voxel)
    ELSE Abs(current_voxel - far_voxel)

\* Lines 233-238: the step from the current voxel to the one at the far side.
CentreStepTo(ray, ray_direction_2, current_voxel, far_voxel) ==
    IF FLt(X(ray.direction), 0) \/ FLt(ray_direction_2, 0)
    THEN Abs(current_voxel - far_voxel)
    ELSE 0 - Abs(current_voxel - far_voxel)

\* Lines 228-237, given a, b and max_radius_over_plane_length.
CentreStepAlong(grid, ray, ray_direction_2, sphere_center_2, P_max, current_voxel, a, b, max_radius_over_plane_length) ==
    CentreStepTo(ray, ray_direction_2, current_voxel,
                 calculateAngularVoxelIDFromPoints(P_max,
                     FSub(X(grid.C), FMul(max_radius_over_plane_length, a)),
                     FSub(sphere_center_2, FMul(max_radius_over_plane_length, b))))

\* Lines 226-237, given a and b.
CentreStepFrom(grid, ray, ray_direction_2, sphere_center_2, P_max, current_voxel, a, b) ==
    CentreStepAlong(grid, ray, ray_direction_2, sphere_center_2, P_max, current_voxel,
                    a, b, FDiv(grid.R, FSqrt(FAdd(FMul(a, a), FMul(b, b)))))

\* The step of a ray through the centre (lines 223-238).  perturbed_t cancels
\* in p1 and p2, which are the centre less R a / |(a, b)| and R b / |(a, b)|;
\* a and b are taken here without it, so that the products keep the digits
\* they have in double.
CentreStep(grid, ray, ray_direction_2, sphere_center_2, P_max, current_voxel) ==
    CentreStepFrom(grid, ray, ray_direction_2, sphere_center_2, P_max, current_voxel,
                   FNeg(X(ray.direction)), FNeg(ray_direction_2))

\* Lines 209-247: the hit, from the two sides and the tests on their times.
AngularChoice(is_intersect_min, is_intersect_max, is_collinear_min, is_collinear_max, t_min, t_max, t_t_min_eq, t_t_max_eq, t_min_within_bounds, t_max_within_bounds, min_max_eq, centre_step) ==
    IF ~t_max_within_bounds /\ ~t_min_within_bounds THEN NoHit
    ELSE IF is_intersect_max /\ ~is_intersect_min /\ ~is_collinear_min
            /\ t_max_within_bounds
    THEN Hit(t_max, 1)
    ELSE IF is_intersect_min /\ ~is_intersect_max /\ ~is_collinear_max
            /\ t_min_within_bounds
    THEN Hit(t_min, 0 - 1)
    ELSE IF (is_intersect_min /\ is_intersect_max)
            \/ (is_intersect_min /\ is_collinear_max)
            \/ (is_intersect_max /\ is_collinear_min)
    THEN (IF min_max_eq /\ t_min_within_bounds
          THEN Hit(t_max, centre_step)
          ELSE IF t_min_within_bounds
                  /\ ((FLt(t_min, t_max) /\ ~min_max_eq) \/ t_t_max_eq)
          THEN Hit(t_min, 0 - 1)
          ELSE IF t_max_within_bounds
                  /\ ((FLt(t_max, t_min) /\ ~min_max_eq) \/ t_t_min_eq)
          THEN Hit(t_max, 1)
          ELSE NoHit)
    ELSE NoHit

\* Lines 205-208: the tests on the two times.
AngularTimes(is_intersect_min, is_intersect_max, is_collinear_min, is_collinear_max, t_min, t_max, t, max_t, centre_step) ==
    AngularChoice(is_intersect_min, is_intersect_max, is_collinear_min, is_collinear_max,
                  t_min, t_max, isEqual(t, t_min), isEqual(t, t_max),
                  FLt(t, t_min) /\ ~isEqual(t, t_min) /\ FLt(t_min, max_t),
                  FLt(t, t_max) /\ ~isEqual(t, t_max) /\ FLt(t_max, max_t),
                  isEqual(t_min, t_max), centre_step)

\* angularHit from its two sides.
AngularSides(side_min, side_max, t, max_t, centre_step) ==
    AngularTimes(side_min.is_intersect, side_max.is_intersect,
                 side_min.is_collinear, side_max.is_collinear,
                 side_min.t, side_max.t, t, max_t, centre_step)

angularHit(grid, ray, perp_uv_min, perp_uv_max, perp_uw_min, perp_uw_max, perp_vw_min, perp_vw_max, ray_segment, collinear_times, t, max_t, ray_direction_2, sphere_center_2, P_max, current_voxel) ==
    AngularSides(BoundarySide(perp_uv_min, perp_uw_min, perp_vw_min, ray_segment,
                              collinear_times),
                 BoundarySide(perp_uv_max, perp_uw_max, perp_vw_max, ray_segment,
                              collinear_times),
                 t, max_t,
                 CentreStep(grid, ray, ray_direction_2, sphere_center_2, P_max,
                            current_voxel))

\* The 2-d perp product u x v in the plane of the axes 1 and k.
Perp(u, v, k) == FSub(FMul(u[1], v[k]), FMul(u[k], v[1]))

\* The call of angularHit both polarHit and azimuthalHit end in, in the plane
\* of the axes 1 and k.
PlaneHit(grid, ray, u_min, u_max, w_min, w_max, ray_segment, collinear_times, t, max_t, k, P_max, current_voxel) ==
    angularHit(grid, ray,
               Perp(u_min, ray_segment.vector, k), Perp(u_max, ray_segment.vector, k),
               Perp(u_min, w_min, k), Perp(u_max, w_max, k),
               Perp(ray_segment.vector, w_min, k), Perp(ray_segment.vector, w_max, k),
               ray_segment, collinear_times, t, max_t,
               ray.direction[k], grid.C[k], P_max, current_voxel)

polarHit(ray, grid, ray_segment, collinear_times, current_polar_voxel, t, max_t) ==
    PlaneHit(grid, ray,
             centerToPolarBound(grid, current_polar_voxel),
             centerToPolarBound(grid, current_polar_voxel + 1),
             VSub(<<pMaxPolar(grid, current_polar_voxel)[1],
                    pMaxPolar(grid, current_polar_voxel)[2], 0>>, ray_segment.P1),
             VSub(<<pMaxPolar(grid, current_polar_voxel + 1)[1],
                    pMaxPolar(grid, current_polar_voxel + 1)[2], 0>>, ray_segment.P1),
             ray_segment, collinear_times, t, max_t, 2, grid.P_max_polar,
             current_polar_voxel)

azimuthalHit(ray, grid, ray_segment, collinear_times, current_azimuthal_voxel, t, max_t) ==
    PlaneHit(grid, ray,
             centerToAzimuthalBound(grid, current_azimuthal_voxel),
             centerToAzimuthalBound(grid, current_azimuthal_voxel + 1),
             VSub(<<pMaxAzimuthal(grid, current_azimuthal_voxel)[1], 0,
                    pMaxAzimuthal(grid, current_azimuthal_voxel)[2]>>, ray_segment.P1),
             VSub(<<pMaxAzimuthal(grid, current_azimuthal_voxel + 1)[1], 0,
                    pMaxAzimuthal(grid, current_azimuthal_voxel + 1)[2]>>, ray_segment.P1),
             ray_segment, collinear_times, t, max_t, 3, grid.P_max_azimuthal,
             current_azimuthal_voxel)

\* The comparisons without isEqual: the smallest tMax alone is named.
MinimumOfStrict(RP_eq, RA_eq, PA_eq, RP_lt, RA_lt, PA_lt) ==
    IF RP_lt /\ RA_lt THEN Radial
    ELSE IF PA_lt THEN Polar
    ELSE Azimuthal

\* Lines 344-353, from the comparisons of lines 340-343 and 346-347.
MinimumOf(RP_eq, RA_eq, PA_eq, RP_lt, RA_lt, PA_lt) ==
    IF RP_lt /\ ~RP_eq /\ RA_lt /\ ~RA_eq THEN Radial
    ELSE IF ~RP_lt /\ ~RP_eq /\ PA_lt /\ ~PA_eq THEN Polar
    ELSE IF ~PA_lt /\ ~PA_eq /\ ~RA_lt /\ ~RA_eq THEN Azimuthal
    ELSE IF RP_eq /\ RA_eq THEN RadialPolarAzimuthal
    ELSE IF PA_eq THEN PolarAzimuthal
    ELSE IF RP_eq THEN RadialPolar
    ELSE RadialAzimuthal

minimumIntersection(radial, polar, azimuthal) ==
    MinimumOf(isEqual(radial.tMax, polar.tMax), isEqual(radial.tMax, azimuthal.tMax),
              isEqual(polar.tMax, azimuthal.tMax), FLt(radial.tMax, polar.tMax),
              FLt(radial.tMax, azimuthal.tMax), FLt(polar.tMax, azimuthal.tMax))

\* initializeVoxelBoundarySegments: <<P_polar, P_azimuthal>>.
initializeVoxelBoundarySegments(ray_origin_is_outside_grid, grid, current_radius) ==
    IF ray_origin_is_outside_grid
    THEN <<grid.P_max_polar, grid.P_max_azimuthal>>
    ELSE <<BoundPoints(current_radius, polarTrigValues(grid), X(grid.C), Y(grid.C)),
           BoundPoints(current_radius, azimuthalTrigValues(grid), X(grid.C), Z(grid.C))>>

-----------------------------------------------------------------------------
(* walkSphericalVolume, lines 394-464: the locals up to the loop *)

\* struct SphericalVoxel; a member the initializer list leaves out is 0.
SphericalVoxel(r, p, a, enter_t, exit_t) ==
    [radial |-> r, polar |-> p, azimuthal |-> a, enter_t |-> enter_t, exit_t |-> exit_t]

\* The scan of lines 398-401 left out: every origin is taken to be outside.
EntranceAtOutermost(grid, SED_from_center) == 0

\* Lines 398-401: the first k with SED_from_center >= deltaRadiiSquared(k).
RadialEntranceVoxel(grid, SED_from_center) ==
    CHOOSE k \in 0..grid.Nr :
        /\ ~FLt(SED_from_center, deltaRadiiSquared(grid, k))
        /\ \A j \in 0..(k - 1) : FLt(SED_from_center, deltaRadiiSquared(grid, j))

\* Lines 395-397 and 410-411.
LocalsOfVector(ray, rsv) ==
    [rsv |-> rsv,
     SED_from_center |-> SquaredLength(rsv),
     rsvd |-> Dot(rsv, rsv),
     v |-> Dot(rsv, ray.direction)]

\* Lines 398-401 and 412.
LocalsOfDistance(grid, w) ==
    w @@ [radial_entrance_voxel |-> RadialEntranceVoxel(grid, w.SED_from_center),
          rsvd_minus_v_squared |-> FSub(w.rsvd, FMul(w.v, w.v))]

\* Lines 402-405.
LocalsOfEntrance(w) ==
    w @@ [ray_origin_is_outside_grid |-> w.radial_entrance_voxel = 0,
          vector_index |-> w.radial_entrance_voxel
                           - (IF w.radial_entrance_voxel = 0 THEN 0 ELSE 1)]

\* Lines 406-409.
LocalsOfShell(grid, w) ==
    w @@ [entry_radius_squared |-> deltaRadiiSquared(grid, w.vector_index),
          entry_radius |-> deltaRadius(grid) * (grid.Nr - w.vector_index)]

\* Lines 415 and 421-424.
LocalsOfChord(grid, w) ==
    w @@ [d |-> FSqrt(FSub(w.entry_radius_squared, w.rsvd_minus_v_squared)),
          P |-> initializeVoxelBoundarySegments(w.ray_origin_is_outside_grid, grid,
                                                w.entry_radius)]

\* Lines 416, 418 and 419.
LocalsOfTimes(ray, w) ==
    w @@ [t_ray_exit |-> timeOfIntersectionAt(ray, FAdd(w.v, w.d)),
          t_ray_entrance |-> timeOfIntersectionAt(ray, FSub(w.v, w.d)),
          current_radial_voxel |->
              w.radial_entrance_voxel + (IF w.ray_origin_is_outside_grid THEN 1 ELSE 0)]

\* Lines 426-429 and 454-456.
LocalsOfRaySphere(ray, grid, max_t, w) ==
    w @@ [ray_sphere |->
              IF w.ray_origin_is_outside_grid
              THEN VSub(grid.C, pointAtParameter(ray, w.t_ray_entrance))
              ELSE IF FEq(w.SED_from_center, 0) THEN VSub(w.rsv, ray.direction)
              ELSE w.rsv,
          t |-> FScale(IF w.ray_origin_is_outside_grid THEN 1 ELSE 0, w.t_ray_entrance),
          unitized_ray_time |->
              FAdd(FMul(max_t, sphereMaxDiameter(grid)),
                   FScale(IF w.ray_origin_is_outside_grid THEN 1 ELSE 0,
                          w.t_ray_entrance))]

\* Lines 431-433, 439-441 and 457-464.
LocalsOfAngles(ray, grid, w) ==
    w @@ [current_polar_voxel |->
              initializeAngularVoxelID(grid, grid.Nt, w.ray_sphere, w.P[1],
                                       Y(w.ray_sphere), Y(grid.C), w.entry_radius),
          current_azimuthal_voxel |->
              initializeAngularVoxelID(grid, grid.Np, w.ray_sphere, w.P[2],
                                       Z(w.ray_sphere), Z(grid.C), w.entry_radius),
          max_t |-> IF w.ray_origin_is_outside_grid
                    THEN FMin(w.t_ray_exit, w.unitized_ray_time)
                    ELSE w.unitized_ray_time,
          collinear_times |-> <<0, timeOfIntersectionAtPoint(ray, grid.C)>>]

\* The locals of walkSphericalVolume(ray, grid, max_t) at line 467, had no
\* return been taken.
WalkLocals(ray, grid, max_t) ==
    LocalsOfAngles(ray, grid,
      LocalsOfRaySphere(ray, grid, max_t,
        LocalsOfTimes(ray,
          LocalsOfChord(grid,
            LocalsOfShell(grid,
              LocalsOfEntrance(
                LocalsOfDistance(grid,
                  LocalsOfVector(ray, VSub(grid.C, pointAtParameter(ray, 0))))))))))

\* The returns of lines 414, 417, 434-437 and 442-445, in the order of the code.
ReturnsAtMiss(w) == FLe(w.entry_radius_squared, w.rsvd_minus_v_squared)
ReturnsAtBehind(w) == ~ReturnsAtMiss(w) /\ FLt(w.t_ray_exit, 0)
ReturnsAtAngularInit(grid, w) ==
    /\ ~ReturnsAtMiss(w) /\ ~ReturnsAtBehind(w)
    /\ (w.current_polar_voxel >= grid.Nt \/ w.current_azimuthal_voxel >= grid.Np)

-----------------------------------------------------------------------------
(* walkSphericalVolume: one iteration of while (true), lines 468-576 *)

\* 2^32 mod n.
TwoTo32Mod(n) == ((65536 % n) * (65536 % n)) % n

\* 2^64 mod n, for the conversion of a negative int to std::size_t.
TwoTo64Mod(n) == (TwoTo32Mod(n) * TwoTo32Mod(n)) % n

\* current + tStep without the remainder.
WithoutMod(x, n) == x

\* (current + tStep) % N with N a std::size_t: the int sum is converted to
\* std::size_t before the remainder is taken.
SizeTMod(x, n) ==
    IF x >= 0 THEN x % n
    ELSE (TwoTo64Mod(n) + (x % n)) % n

\* The bounds checks the case of `type` makes before it changes an index.
InBounds(grid, type, p, a, current_polar_voxel, current_azimuthal_voxel) ==
    /\ OwnsPolar(type) => inBoundsPolar(grid, p.tStep, current_polar_voxel)
    /\ OwnsAzimuthal(type) => inBoundsAzimuthal(grid, a.tStep, current_azimuthal_voxel)

\* The time the case of `type` assigns to t.
ChosenTMax(type, r, p, a) ==
    IF type = Polar \/ type = PolarAzimuthal THEN p.tMax
    ELSE IF type = Azimuthal THEN a.tMax
    ELSE r.tMax

\* Lines 478-565: what the iteration does with its three hits.  The Azimuthal
\* case checks its bounds before it assigns t, the other cases after.
Outcome(grid, current_radial_voxel, current_polar_voxel, current_azimuthal_voxel, t, r, transitioned, p, a, leaves, type, in_bounds) ==
    [radial |-> r, polar |-> p, azimuthal |-> a,
     transitioned |-> transitioned,
     leaves |-> leaves,
     type |-> IF leaves THEN 0 ELSE type,
     in_bounds |-> leaves \/ in_bounds,
     t |-> IF leaves \/ (type = Azimuthal /\ ~in_bounds) THEN t
           ELSE ChosenTMax(type, r, p, a),
     new_radial |-> IF ~leaves /\ in_bounds /\ OwnsRadial(type)
                    THEN current_radial_voxel + r.tStep
                    ELSE current_radial_voxel,
     new_polar |-> IF ~leaves /\ in_bounds /\ OwnsPolar(type)
                   THEN SizeTMod(current_polar_voxel + p.tStep, grid.Nt)
                   ELSE current_polar_voxel,
     new_azimuthal |-> IF ~leaves /\ in_bounds /\ OwnsAzimuthal(type)
                       THEN SizeTMod(current_azimuthal_voxel + a.tStep, grid.Np)
                       ELSE current_azimuthal_voxel]

\* Lines 484-485 and the bounds checks of the switch.
OutcomeOfType(grid, current_radial_voxel, current_polar_voxel, current_azimuthal_voxel, t, r, transitioned, p, a, leaves, type) ==
    Outcome(grid, current_radial_voxel, current_polar_voxel, current_azimuthal_voxel, t,
            r, transitioned, p, a, leaves, type,
            InBounds(grid, type, p, a, current_polar_voxel, current_azimuthal_voxel))

\* The test of lines 478-480 without its first operand: the loop returns only
\* when no hit is left.
LeavesWhenNoHit(current_radial_voxel, r, p, a) ==
    r.tMax = DOUBLE_MAX /\ p.tMax = DOUBLE_MAX /\ a.tMax = DOUBLE_MAX

\* Lines 478-480: the radial step leaves the grid, or no hit is left.
LeavesGrid(current_radial_voxel, r, p, a) ==
    \/ current_radial_voxel + r.tStep = 0
    \/ (r.tMax = DOUBLE_MAX /\ p.tMax = DOUBLE_MAX /\ a.tMax = DOUBLE_MAX)

\* Lines 478-485.
OutcomeOfHits(grid, current_radial_voxel, current_polar_voxel, current_azimuthal_voxel, t, r, transitioned, p, a) ==
    OutcomeOfType(grid, current_radial_voxel, current_polar_voxel,
                  current_azimuthal_voxel, t, r, transitioned, p, a,
                  LeavesGrid(current_radial_voxel, r, p, a),
                  minimumIntersection(r, p, a))

\* Lines 472-476.
OutcomeOfRadial(ray, grid, current_radial_voxel, current_polar_voxel, current_azimuthal_voxel, collinear_times, t, max_t, rh, ray_segment) ==
    OutcomeOfHits(grid, current_radial_voxel, current_polar_voxel,
                  current_azimuthal_voxel, t, rh.hit, rh.transitioned,
                  polarHit(ray, grid, ray_segment, collinear_times, current_polar_voxel,
                           t, max_t),
                  azimuthalHit(ray, grid, ray_segment, collinear_times,
                               current_azimuthal_voxel, t, max_t))

\* Everything one iteration computes, from the locals at the top of the loop.
IterationOf(ray, grid, radial_step_has_transitioned, current_radial_voxel, current_polar_voxel, current_azimuthal_voxel, v, rsvd_minus_v_squared, collinear_times, t, max_t) ==
    OutcomeOfRadial(ray, grid, current_radial_voxel, current_polar_voxel,
                    current_azimuthal_voxel, collinear_times, t, max_t,
                    radialHit(ray, grid, radial_step_has_transitioned,
                              current_radial_voxel, v, rsvd_minus_v_squared, t, max_t),
                    RaySegment(max_t, ray, t))

\* voxels.back().exit_t = x
CloseLast(vs, x) == [vs EXCEPT ![Len(vs)].exit_t = x]

\* Emit without line 571: the last voxel is left open.
EmitWithoutClose(vs, r, p, a, time) == Append(vs, SphericalVoxel(r, p, a, time, 0))

\* Lines 571-575: close the last voxel at t and push the new one.
Emit(vs, r, p, a, time) ==
    Append(CloseLast(vs, time), SphericalVoxel(r, p, a, time, 0))

\* Lines 566-570 left out: no step is taken to repeat the last voxel.
NeverSameAsLast(vs, r, p, a) == FALSE

\* Lines 566-570: the new indices are those of the last voxel.
SameAsLast(vs, r, p, a) ==
    /\ vs[Len(vs)].radial = r
    /\ vs[Len(vs)].polar = p
    /\ vs[Len(vs)].azimuthal = a

-----------------------------------------------------------------------------
(* walkSphericalVolume: the state of one call *)

VARIABLES
    ray,                            \* the Ray argument
    grid,                           \* the SphericalVoxelGrid argument
    max_t_arg,                      \* the max_t argument
    pc,                             \* "call", "loop" (at while (true)) or "done"
    voxels,                         \* std::vector<SphericalVoxel>, the result
    ray_origin_is_outside_grid,
    v,
    rsvd_minus_v_squared,
    t_ray_exit,
    t_ray_entrance,
    collinear_times,
    t,
    max_t,                          \* max_t once made effective (line 457)
    current_radial_voxel,
    current_polar_voxel,
    current_azimuthal_voxel,
    radial_step_has_transitioned,
    radial,                         \* the hits and the type of the last iteration
    polar,
    azimuthal,
    voxel_intersection

vars == <<ray, grid, max_t_arg, pc, voxels, ray_origin_is_outside_grid, v,
          rsvd_minus_v_squared, t_ray_exit, t_ray_entrance, collinear_times, t, max_t,
          current_radial_voxel, current_polar_voxel, current_azimuthal_voxel,
          radial_step_has_transitioned, radial, polar, azimuthal, voxel_intersection>>

CallFrame == <<ray, grid, max_t_arg>>
ConstLocals == <<ray_origin_is_outside_grid, v, rsvd_minus_v_squared, t_ray_exit,
                 t_ray_entrance, collinear_times, max_t>>
LoopLocals == <<t, current_radial_voxel, current_polar_voxel, current_azimuthal_voxel,
                radial_step_has_transitioned, radial, polar, azimuthal,
                voxel_intersection>>

\* The locals of this call at line 467.
Locals == WalkLocals(ray, grid, max_t_arg)

\* This iteration.
Iteration ==
    IterationOf(ray, grid, radial_step_has_transitioned, current_radial_voxel,
                current_polar_voxel, current_azimuthal_voxel, v, rsvd_minus_v_squared,
                collinear_times, t, max_t)

-----------------------------------------------------------------------------
(* The actions *)

\* line 394
ReturnMaxT ==
    /\ pc = "call" /\ max_t_arg <= 0
    /\ pc' = "done"
    /\ UNCHANGED <<CallFrame, voxels, ConstLocals, LoopLocals>>

\* line 414
ReturnMiss ==
    /\ pc = "call" /\ max_t_arg > 0
    /\ ReturnsAtMiss(Locals)
    /\ pc' = "done"
    /\ UNCHANGED <<CallFrame, voxels, ConstLocals, LoopLocals>>

\* line 417
ReturnBehind ==
    /\ pc = "call" /\ max_t_arg > 0
    /\ ReturnsAtBehind(Locals)
    /\ pc' = "done"
    /\ UNCHANGED <<CallFrame, voxels, ConstLocals, LoopLocals>>

\* lines 434-437 and 442-445
ReturnAngularInit ==
    /\ pc = "call" /\ max_t_arg > 0
    /\ ReturnsAtAngularInit(grid, Locals)
    /\ pc' = "done"
    /\ UNCHANGED <<CallFrame, voxels, ConstLocals, LoopLocals>>

\* Lines 447-467 with the locals w.
Entered(w) ==
    /\ ~ReturnsAtMiss(w) /\ ~ReturnsAtBehind(w) /\ ~ReturnsAtAngularInit(grid, w)
    /\ ray_origin_is_outside_grid' = w.ray_origin_is_outside_grid
    /\ v' = w.v
    /\ rsvd_minus_v_squared' = w.rsvd_minus_v_squared
    /\ t_ray_exit' = w.t_ray_exit
    /\ t_ray_entrance' = w.t_ray_entrance
    /\ collinear_times' = w.collinear_times
    /\ current_radial_voxel' = w.current_radial_voxel
    /\ current_polar_voxel' = w.current_polar_voxel
    /\ current_azimuthal_voxel' = w.current_azimuthal_voxel
    /\ voxels' = <<SphericalVoxel(w.current_radial_voxel, w.current_polar_voxel,
                                  w.current_azimuthal_voxel, 0, 0)>>
    /\ t' = w.t
    /\ max_t' = w.max_t

\* lines 447-467: the first voxel is pushed and the loop is reached
Enter ==
    /\ pc = "call" /\ max_t_arg > 0
    /\ Entered(Locals)
    /\ radial_step_has_transitioned' = FALSE
    /\ pc' = "loop"
    /\ UNCHANGED <<CallFrame, radial, polar, azimuthal, voxel_intersection>>

\* What every iteration records of itself.
Records(it) ==
    /\ radial' = it.radial
    /\ polar' = it.polar
    /\ azimuthal' = it.azimuthal
    /\ voxel_intersection' = it.type
    /\ radial_step_has_transitioned' = it.transitioned
    /\ t' = it.t
    /\ current_radial_voxel' = it.new_radial
    /\ current_polar_voxel' = it.new_polar
    /\ current_azimuthal_voxel' = it.new_azimuthal

\* Lines 478-483 for the iteration it.
Exits(it) ==
    /\ it.leaves
    /\ Records(it)
    /\ voxels' = CloseLast(voxels, t_ray_exit)

\* The returns of the switch for the iteration it.
LeavesBounds(it) ==
    /\ ~it.leaves /\ ~it.in_bounds
    /\ Records(it)
    /\ voxels' = CloseLast(voxels, t_ray_exit)

\* Lines 566-570 for the iteration it.
Skips(it) ==
    /\ ~it.leaves /\ it.in_bounds
    /\ SameAsLast(voxels, it.new_radial, it.new_polar, it.new_azimuthal)
    /\ Records(it)
    /\ UNCHANGED voxels

\* Lines 571-575 for the iteration it.
Emits(it) ==
    /\ ~it.leaves /\ it.in_bounds
    /\ ~SameAsLast(voxels, it.new_radial, it.new_polar, it.new_azimuthal)
    /\ Records(it)
    /\ voxels' = Emit(voxels, it.new_radial, it.new_polar, it.new_azimuthal, it.t)

\* lines 478-483: the ray leaves the grid, or no hit is left
LoopReturnExit ==
    /\ pc = "loop"
    /\ Exits(Iteration)
    /\ pc' = "done"
    /\ UNCHANGED <<CallFrame, ConstLocals>>

\* the returns of the switch: a step that leaves the angular bounds
LoopReturnBounds ==
    /\ pc = "loop"
    /\ LeavesBounds(Iteration)
    /\ pc' = "done"
    /\ UNCHANGED <<CallFrame, ConstLocals>>

\* lines 566-570: the step changed no index
LoopSkip ==
    /\ pc = "loop"
    /\ Skips(Iteration)
    /\ UNCHANGED <<CallFrame, ConstLocals, pc>>

\* lines 571-575: the step reached a new voxel
LoopEmit ==
    /\ pc = "loop"
    /\ Emits(Iteration)
    /\ UNCHANGED <<CallFrame, ConstLocals, pc>>

-----------------------------------------------------------------------------
(* The calls explored *)

\* Radial section counts 1..MaxRadialSections.
MaxRadialSections == 4

\* Origin coordinates: x is k * CoordStep for k in -MaxCoord..MaxCoord, so that
\* origins lie outside the grid on both sides, y is within one CoordStep of the
\* centre and z is 0 or OffPlane.
MaxCoord == 3
CoordStep == 6 * (Scale \div 10)
OffPlane == Scale \div 10

Tenth(n) == n * (Scale \div 10)

Origins ==
    {<<i * CoordStep, j * CoordStep, z>> :
        i \in (0 - MaxCoord)..MaxCoord, j \in (0 - 1)..1, z \in {0, OffPlane}}

\* Unit directions: the six axis directions and four 3-4-5 directions.
Directions ==
    {<<Scale, 0, 0>>, <<0 - Scale, 0, 0>>, <<0, Scale, 0>>, <<0, 0 - Scale, 0>>,
     <<0, 0, Scale>>, <<0, 0, 0 - Scale>>,
     <<Tenth(6), Tenth(8), 0>>, <<Tenth(0 - 6), Tenth(0 - 8), 0>>,
     <<Tenth(0 - 8), Tenth(6), 0>>, <<0, Tenth(6), Tenth(8)>>}

Hundredth(n) == n * (Scale \div 100)

\* Two rays through the sphere centre that lie in no boundary plane, one with
\* every direction component positive and one with every component negative.
CentreRays ==
    {Ray(<<Tenth(0 - 12), Tenth(0 - 16), Tenth(0 - 15)>>,
         <<Hundredth(48), Hundredth(64), Hundredth(60)>>),
     Ray(<<Tenth(12), Tenth(16), Tenth(15)>>,
         <<Hundredth(0 - 48), Hundredth(0 - 64), Hundredth(0 - 60)>>)}

\* <<N_theta, N_phi, polar min, polar max, azimuthal min, azimuthal max>>
AngularShapes ==
    {<<1, 1, 0, FullCircle, 0, FullCircle>>,
     <<4, 4, 0, FullCircle, 0, FullCircle>>,
     <<3, 2, 0, FullCircle, 0, FullCircle>>,
     <<1, 3, 0, FullCircle, 0, FullCircle>>,
     <<2, 1, 6, 18, 0, FullCircle>>,
     <<2, 2, 0, 12, 0, 12>>}

Grids ==
    {SphericalVoxelGrid(n, s[1], s[2], Tenth(12), <<0, 0, 0>>, s[3], s[4], s[5], s[6]) :
        n \in 1..MaxRadialSections, s \in AngularShapes}

MaxTimes == {0, Scale \div 4, Scale}

Init ==
    /\ \/ \E o \in Origins, dir \in Directions : ray = Ray(o, dir)
       \/ ray \in CentreRays
    /\ grid \in Grids
    /\ max_t_arg \in MaxTimes
    /\ pc = "call"
    /\ voxels = <<>>
    /\ ray_origin_is_outside_grid = FALSE
    /\ v = 0
    /\ rsvd_minus_v_squared = 0
    /\ t_ray_exit = 0
    /\ t_ray_entrance = 0
    /\ collinear_times = <<0, 0>>
    /\ t = 0
    /\ max_t = max_t_arg
    /\ current_radial_voxel = 0
    /\ current_polar_voxel = 0
    /\ current_azimuthal_voxel = 0
    /\ radial_step_has_transitioned = FALSE
    /\ radial = NoHit
    /\ polar = NoHit
    /\ azimuthal = NoHit
    /\ voxel_intersection = 0

Next ==
    \/ ReturnMaxT
    \/ ReturnMiss
    \/ ReturnBehind
    \/ ReturnAngularInit
    \/ Enter
    \/ LoopReturnExit
    \/ LoopReturnBounds
    \/ LoopSkip
    \/ LoopEmit

Spec == Init /\ [][Next]_vars

-----------------------------------------------------------------------------
(* The geometry the properties are stated against *)

\* Real numbers of the properties.
Half(a) == FDiv(a, 2 * Scale)
Tolerance == Scale \div 100

\* The line of the ray and the outermost sphere, from the arguments alone.
OriginToCentre == VSub(grid.C, ray.origin)
AlongRay == Dot(OriginToCentre, ray.direction)
ClosestApproachSquared == FSub(SquaredLength(OriginToCentre), Square(AlongRay))
OuterRadiusSquared == Square(grid.R)
OriginIsOutside == FGe(SquaredLength(OriginToCentre), OuterRadiusSquared)
LineCrossesOuterSphere == FLt(ClosestApproachSquared, OuterRadiusSquared)
SphereIsBehind == OriginIsOutside /\ FLt(AlongRay, 0)
RayMissesGrid == ~LineCrossesOuterSphere \/ SphereIsBehind
HalfChord == FSqrt(FSub(OuterRadiusSquared, ClosestApproachSquared))
OuterEntryTime == IF OriginIsOutside THEN FSub(AlongRay, HalfChord) ELSE 0
OuterExitTime == FAdd(AlongRay, HalfChord)
LatestTime == FMin(OuterExitTime, max_t)

FullRange ==
    /\ grid.polarMin = 0 /\ grid.polarMax = FullCircle
    /\ grid.aziMin = 0 /\ grid.aziMax = FullCircle

\* The squared distance from the centre of the ray's point at time s.
RadiusSquaredAt(s) == SquaredLength(VSub(pointAtParameter(ray, s), grid.C))

\* The point at time s lies in the shell of radial index k, up to Tolerance.
InShell(k, s) ==
    /\ FGe(RadiusSquaredAt(s), FSub(deltaRadiiSquared(grid, k), Tolerance))
    /\ FLe(RadiusSquaredAt(s), FAdd(deltaRadiiSquared(grid, k - 1), Tolerance))

Done == pc = "done"
Last == voxels[Len(voxels)]
Simultaneous == {RadialPolar, RadialAzimuthal, PolarAzimuthal, RadialPolarAzimuthal}

\* The indices in which two voxels differ.
Differing(a, b) ==
    {n \in {"radial", "polar", "azimuthal"} : a[n] # b[n]}

\* The indices each intersection type names.
Named(type) ==
    (IF type \in {Radial, RadialPolar, RadialAzimuthal, RadialPolarAzimuthal}
     THEN {"radial"} ELSE {})
    \cup (IF type \in {Polar, RadialPolar, PolarAzimuthal, RadialPolarAzimuthal}
          THEN {"polar"} ELSE {})
    \cup (IF type \in {Azimuthal, RadialAzimuthal, PolarAzimuthal, RadialPolarAzimuthal}
          THEN {"azimuthal"} ELSE {})

\* A step of the loop that pushed a voxel.
Pushed == pc = "loop" /\ Len(voxels') = Len(voxels) + 1

-----------------------------------------------------------------------------
(* The properties *)

\* C1: every voxel returned holds the ray's points over its whole interval:
\* at enter_t, at exit_t and half-way between them the point P(t) lies in the
\* radial shell the voxel names.
C1_Containment ==
    Done =>
        \A i \in 1..Len(voxels) :
            /\ InShell(voxels[i].radial, voxels[i].enter_t)
            /\ InShell(voxels[i].radial, Half(FAdd(voxels[i].enter_t, voxels[i].exit_t)))
            /\ InShell(voxels[i].radial, voxels[i].exit_t)

\* C2: on a grid of full angular range the result is empty exactly when
\* max_t <= 0 or the ray misses the grid (its line does not cross the outermost
\* sphere, or the sphere lies behind the origin).
C2_EmptyIffMiss ==
    (Done /\ FullRange) => ((voxels = <<>>) <=> (max_t_arg <= 0 \/ RayMissesGrid))

\* C3: every voxel returned, the last one included, has enter_t <= exit_t.
C3_EnterBeforeExit ==
    Done => \A i \in 1..Len(voxels) : FLe(voxels[i].enter_t, voxels[i].exit_t)

\* C4: the intervals of consecutive voxels are contiguous: each voxel's exit_t
\* is the enter_t of the voxel after it.
C4_Contiguous ==
    \A i \in 1..(Len(voxels) - 1) : FEq(voxels[i].exit_t, voxels[i + 1].enter_t)

C4_Witness == Done /\ Len(voxels) >= 4

\* C5: every enter_t and exit_t returned lies between the entry time into the
\* outermost sphere (0 for an origin inside) and the earlier of the exit time
\* from it and the effective max_t; the first enter_t of an origin outside is
\* that entry time.
C5_TimesInWindow ==
    (Done /\ voxels # <<>>) =>
        /\ \A i \in 1..Len(voxels) :
              /\ FGe(voxels[i].enter_t, FSub(OuterEntryTime, Tolerance))
              /\ FLe(voxels[i].enter_t, FAdd(LatestTime, Tolerance))
              /\ FGe(voxels[i].exit_t, FSub(OuterEntryTime, Tolerance))
              /\ FLe(voxels[i].exit_t, FAdd(LatestTime, Tolerance))
        /\ OriginIsOutside =>
              FLe(FAbs(FSub(voxels[1].enter_t, OuterEntryTime)), Tolerance)

\* C6: enter_t increases strictly along the voxels returned.
C6_EnterIncreases ==
    \A i \in 1..(Len(voxels) - 1) : FLt(voxels[i].enter_t, voxels[i + 1].enter_t)

\* C7: every voxel has its radial index in 1..N_r, its polar index in
\* 0..N_theta - 1 and its azimuthal index in 0..N_phi - 1.
C7_IndexRanges ==
    \A i \in 1..Len(voxels) :
        /\ voxels[i].radial \in 1..grid.Nr
        /\ voxels[i].polar \in 0..(grid.Nt - 1)
        /\ voxels[i].azimuthal \in 0..(grid.Np - 1)

\* A traversal that stepped over the wrap of an angular index.
C7_Witness ==
    /\ Done /\ grid.Nt = 3
    /\ \E i \in 1..(Len(voxels) - 1) :
          voxels[i].polar = grid.Nt - 1 /\ voxels[i + 1].polar = 0

\* No two consecutive voxels name the same cell.
NoRepeat ==
    \A i \in 1..(Len(voxels) - 1) : Differing(voxels[i], voxels[i + 1]) # {}

\* An iteration that goes round the loop and leaves the three indices as they
\* were pushes nothing, leaves the voxels as they are and moves t forward.
SkipKeepsVoxels ==
    (/\ pc = "loop" /\ pc' = "loop"
     /\ current_radial_voxel' = current_radial_voxel
     /\ current_polar_voxel' = current_polar_voxel
     /\ current_azimuthal_voxel' = current_azimuthal_voxel)
    => (voxels' = voxels /\ FLt(t, t'))

\* C8: no two consecutive voxels are the same cell: an iteration whose step
\* leaves the three indices unchanged emits nothing, leaves the last voxel's
\* exit_t alone and still advances t.
C8_NoRepeat == [](NoRepeat) /\ [][SkipKeepsVoxels]_vars

\* The loop has just gone round without pushing a voxel.
C8_Witness ==
    /\ pc = "loop" /\ voxel_intersection # 0
    /\ t # Last.enter_t

\* C9 as stated: a voxel pushed by a Radial, Polar or Azimuthal step differs
\* from the one before it in the index of that type alone, and a voxel differs
\* in two or three indices exactly when the step was a simultaneous one.
C9_AsStated ==
    [][Pushed =>
         /\ voxel_intersection' \notin Simultaneous
               => Differing(Last, Last') = Named(voxel_intersection')
         /\ Cardinality(Differing(Last, Last')) >= 2
               <=> voxel_intersection' \in Simultaneous]_vars

\* C9: a voxel pushed differs from the one before it in at least one index,
\* only in indices the step's intersection type names (so in two or three only
\* after a simultaneous step), and enters at the time of the step.
C9_OnlyNamedIndices ==
    [][Pushed =>
         /\ Differing(Last, Last') # {}
         /\ Differing(Last, Last') \subseteq Named(voxel_intersection')
         /\ Last'.enter_t = t']_vars

\* A simultaneous step has just pushed a voxel that differs in two indices.
C9_Witness ==
    /\ pc = "loop" /\ Len(voxels) >= 2
    /\ voxel_intersection \in Simultaneous
    /\ FGt(t, 0) /\ t = Last.enter_t
    /\ Cardinality(Differing(voxels[Len(voxels) - 1], Last)) >= 2

\* C10: every iteration that does not return moves t strictly forward and
\* keeps it below the effective max_t.
C10_TimeAdvances ==
    [][(pc = "loop" /\ pc' = "loop") => (FLt(t, t') /\ FLt(t', max_t))]_vars

\* The distance bounds of the shell of radial index k, squared.
ShellInnerSquared(k) == Square((grid.Nr - k) * deltaRadius(grid))
ShellOuterSquared(k) == Square((grid.Nr - k + 1) * deltaRadius(grid))

\* C11: the first voxel has radial index 1 when the origin is on or outside
\* the outermost sphere, and otherwise the index k in 1..N_r of the shell that
\* holds the origin, (N_r - k) dR <= |O - C| < (N_r - k + 1) dR; it is N_r when
\* the origin is the centre.
C11_FirstRadial ==
    voxels # <<>> =>
        IF OriginIsOutside THEN voxels[1].radial = 1
        ELSE /\ voxels[1].radial \in 1..grid.Nr
             /\ FLe(ShellInnerSquared(voxels[1].radial), SquaredLength(OriginToCentre))
             /\ FLt(SquaredLength(OriginToCentre), ShellOuterSquared(voxels[1].radial))
             /\ (ray.origin = grid.C => voxels[1].radial = grid.Nr)

\* An origin inside the grid, in a shell that is neither the outermost nor the
\* innermost, has had its first voxel pushed.
C11_Witness ==
    /\ voxels # <<>> /\ ~OriginIsOutside
    /\ grid.Nr = 3 /\ voxels[1].radial = 2

FirstNonZeroAxis(d) == IF d[1] # 0 THEN 1 ELSE IF d[2] # 0 THEN 2 ELSE 3

\* Scalars along the ray.
Scalars == {0 - Scale, 0, Scale \div 2, Scale, 2 * Scale}

\* C13: timeOfIntersectionAt(s) works in the first component of the direction
\* that is not zero, positive or negative, never in one that is zero, and
\* returns s.
C13_TimeIsScalar ==
    \A s \in Scalars :
        /\ ray.axis = FirstNonZeroAxis(ray.direction)
        /\ ray.direction[ray.axis] # 0
        /\ FLe(FAbs(FSub(timeOfIntersectionAt(ray, s), s)), Tolerance)

\* The remainder of x by n in 0..n-1.
MathMod(x, n) == x % n

\* C14: every polar or azimuthal step applied leaves the index at
\* (current + tStep) mod N in 0..N-1, also when current + tStep is negative.
C14_StepIsModulo ==
    [][(pc = "loop" /\ pc' = "loop") =>
         /\ OwnsPolar(voxel_intersection')
               => current_polar_voxel' = MathMod(current_polar_voxel + polar'.tStep, grid.Nt)
         /\ OwnsAzimuthal(voxel_intersection')
               => current_azimuthal_voxel'
                      = MathMod(current_azimuthal_voxel + azimuthal'.tStep, grid.Np)]_vars

\* An iteration of the loop, whether it goes round or returns.
Iterates == pc = "loop" /\ radial_step_has_transitioned' \in BOOLEAN /\ pc' \in {"loop", "done"}

\* C15: the hit radialHit returns is the sentinel {DOUBLE_MAX, 0} or has
\* t < tMax < max_t for the time t and the effective max_t it was called with.
C15_RadialHitInWindow ==
    [][Iterates =>
         \/ radial' = NoHit
         \/ (FLt(t, radial'.tMax) /\ FLt(radial'.tMax, max_t))]_vars

\* C16: when the loop returns because current_radial_voxel + radial.tStep = 0,
\* neither the polar nor the azimuthal hit of that iteration comes before the
\* radial one.
C16_NoAngularHitBeforeExit ==
    [][(pc = "loop" /\ pc' = "done" /\ current_radial_voxel + radial'.tStep = 0) =>
         /\ ~(FLt(polar'.tMax, radial'.tMax) /\ ~isEqual(polar'.tMax, radial'.tMax))
         /\ ~(FLt(azimuthal'.tMax, radial'.tMax)
              /\ ~isEqual(azimuthal'.tMax, radial'.tMax))]_vars

\* The radial indices of the voxels rise, then fall: after a fall there is no
\* rise.
RisesThenFalls ==
    \A i \in 1..(Len(voxels) - 1) :
        voxels[i].radial > voxels[i + 1].radial =>
            \A j \in (i + 1)..(Len(voxels) - 1) : voxels[j].radial >= voxels[j + 1].radial

\* The flag is clear when the loop is reached; an iteration returns a radial
\* step in {-1, 0, +1}, never clears the flag, lowers the radial index only
\* with the flag set and raises it only with the flag clear.
TransitionsOnce ==
    /\ (pc = "call" /\ pc' = "loop") => ~radial_step_has_transitioned'
    /\ Iterates =>
         /\ radial'.tStep \in {0 - 1, 0, 1}
         /\ radial_step_has_transitioned => radial_step_has_transitioned'
         /\ current_radial_voxel' < current_radial_voxel => radial_step_has_transitioned'
         /\ current_radial_voxel' > current_radial_voxel => ~radial_step_has_transitioned'
         /\ current_radial_voxel' - current_radial_voxel \in {0 - 1, 0, 1}

\* C17: radialHit's tStep is -1, 0 or +1; radial_step_has_transitioned starts
\* false and is never reset; once it is set every radial step applied is -1 or
\* 0, so the radial indices of the output do not decrease before the
\* transition or increase after it.
C17_RadialTransition == [](RisesThenFalls) /\ [][TransitionsOnce]_vars

\* A traversal that went inwards, passed the transition and came out again.
C17_Witness ==
    /\ pc = "loop" /\ radial_step_has_transitioned /\ Len(voxels) >= 4
    /\ voxels[1].radial < voxels[2].radial
    /\ Last.radial < voxels[Len(voxels) - 1].radial

\* The hit of the last iteration by the name of its index.
HitOf(n) == IF n = "radial" THEN radial ELSE IF n = "polar" THEN polar ELSE azimuthal

\* The hits whose tMax is minimal up to isEqual: below or equal to each other one.
MinimalHits ==
    {n \in {"radial", "polar", "azimuthal"} :
        \A m \in {"radial", "polar", "azimuthal"} \ {n} :
            FLt(HitOf(n).tMax, HitOf(m).tMax) \/ isEqual(HitOf(n).tMax, HitOf(m).tMax)}

ThroughCentre ==
    /\ OriginIsOutside
    /\ FEq(ClosestApproachSquared, 0) /\ FGt(AlongRay, 0)
    /\ max_t_arg = Scale
    /\ ray.direction[ray.axis] # 0

\* b is half of n sections away from a.
HalfTurn(a, b, n) == (2 * (b - a) - n) % (2 * n) = 0

\* C19: a ray through the centre of a grid of full range with N_theta, N_phi > 1
\* changes its polar and its azimuthal index by N/2 (mod N) at the time it
\* crosses the centre, and goes on to leave the grid on the far side.
C19_CentreFlip ==
    (Done /\ FullRange /\ grid.Nt > 1 /\ grid.Np > 1 /\ ThroughCentre) =>
        \E i \in 1..(Len(voxels) - 1) :
            /\ isEqual(voxels[i + 1].enter_t, AlongRay)
            /\ HalfTurn(voxels[i].polar, voxels[i + 1].polar, grid.Nt)
            /\ HalfTurn(voxels[i].azimuthal, voxels[i + 1].azimuthal, grid.Np)
            /\ Last.radial = 1
            /\ Last.polar = voxels[i + 1].polar
            /\ Last.azimuthal = voxels[i + 1].azimuthal
            /\ FLe(FAbs(FSub(Last.exit_t, OuterExitTime)), Tolerance)

\* The plane k of an angular hit: 2 for polar (x, y), 3 for azimuthal (x, z).
CurrentVoxel(k) == IF k = 2 THEN current_polar_voxel ELSE current_azimuthal_voxel
HitAfter(k) == IF k = 2 THEN polar' ELSE azimuthal'
PMax(k) == IF k = 2 THEN grid.P_max_polar ELSE grid.P_max_azimuthal
BoundTo(k, i) ==
    IF k = 2 THEN centerToPolarBound(grid, i) ELSE centerToAzimuthalBound(grid, i)
BoundPoint(k, i) ==
    IF k = 2 THEN <<pMaxPolar(grid, i)[1], pMaxPolar(grid, i)[2], 0>>
    ELSE <<pMaxAzimuthal(grid, i)[1], 0, pMaxAzimuthal(grid, i)[2]>>

\* The ray segment of this iteration, and the side of boundary i in plane k as
\* angularHit sees it.
SegmentNow == RaySegment(max_t, ray, t)
SideOf(k, i) ==
    BoundarySide(Perp(BoundTo(k, i), SegmentNow.vector, k),
                 Perp(BoundTo(k, i), VSub(BoundPoint(k, i), SegmentNow.P1), k),
                 Perp(SegmentNow.vector, VSub(BoundPoint(k, i), SegmentNow.P1), k),
                 SegmentNow, collinear_times)

\* The ray-through-centre case of angularHit: both sides are met, or one is met
\* and the other collinear; t_min isEqual t_max; t_min is within bounds.
CentreCaseOf(side_min, side_max) ==
    /\ \/ (side_min.is_intersect /\ side_max.is_intersect)
       \/ (side_min.is_intersect /\ side_max.is_collinear)
       \/ (side_max.is_intersect /\ side_min.is_collinear)
    /\ isEqual(side_min.t, side_max.t)
    /\ FLt(t, side_min.t) /\ ~isEqual(t, side_min.t) /\ FLt(side_min.t, max_t)
CentreCase(k) == CentreCaseOf(SideOf(k, CurrentVoxel(k)), SideOf(k, CurrentVoxel(k) + 1))

\* next_step = |current_voxel - index of the perturbed point|
NextStep(k) ==
    Abs(CentreStep(grid, ray, ray.direction[k], grid.C[k], PMax(k), CurrentVoxel(k)))
BothNonNegative(k) == FGe(X(ray.direction), 0) /\ FGe(ray.direction[k], 0)

\* C20 as stated: in the ray-through-centre case tStep is +next_step when both
\* in-plane direction components are non-negative and -next_step otherwise.
C20_AsStated ==
    [][Iterates =>
         \A k \in {2, 3} :
             CentreCase(k) =>
                 HitAfter(k).tStep
                     = IF BothNonNegative(k) THEN NextStep(k) ELSE 0 - NextStep(k)]_vars

\* C20: in the ray-through-centre case tStep is -next_step when both in-plane
\* direction components are non-negative and +next_step when one is negative.
C20_SignOfCentreStep ==
    [][Iterates =>
         \A k \in {2, 3} :
             CentreCase(k) =>
                 HitAfter(k).tStep
                     = IF BothNonNegative(k) THEN 0 - NextStep(k) ELSE NextStep(k)]_vars

\* A ray through the centre has just crossed it with a polar step of two
\* sections, which only the ray-through-centre case returns.
C20_Witness ==
    /\ pc = "loop" /\ FEq(ClosestApproachSquared, 0) /\ isEqual(t, AlongRay)
    /\ OwnsPolar(voxel_intersection) /\ polar.tStep = 0 - 2
    /\ Last.enter_t = t

\* The polar, the azimuthal range of the grid is the full circle.
PolarIsFull == grid.polarMin = 0 /\ grid.polarMax = grid.Nt * deltaTheta(grid)
AzimuthalIsFull == grid.aziMin = 0 /\ grid.aziMax = grid.Np * deltaPhi(grid)

\* The iteration went into the switch with a type that steps the polar, the
\* azimuthal index.
StepsPolar == Iterates /\ OwnsPolar(voxel_intersection')
StepsAzimuthal == Iterates /\ OwnsAzimuthal(voxel_intersection')

\* A step of at most half of the n sections.
UpToHalf(step, n) == 2 * Abs(step) <= n

\* C21: on a grid whose polar (azimuthal) range is the full circle, the bounds
\* check accepts every step of at most N/2 sections that the hit kernel
\* produces, steps of one section and steps through the centre alike, and no
\* traversal of a grid of full range returns from the switch.
C21_FullRangeAccepts ==
    [][/\ (StepsPolar /\ PolarIsFull /\ UpToHalf(polar'.tStep, grid.Nt)) =>
              inBoundsPolar(grid, polar'.tStep, current_polar_voxel)
       /\ (StepsAzimuthal /\ AzimuthalIsFull /\ UpToHalf(azimuthal'.tStep, grid.Np)) =>
              inBoundsAzimuthal(grid, azimuthal'.tStep, current_azimuthal_voxel)
       /\ (PolarIsFull /\ AzimuthalIsFull) => ~LoopReturnBounds]_vars

\* The part of C21 about steps of one section, wraps included, which the code
\* keeps: (k + 1) delta - delta = k delta lies within 0 and N delta.
C21_SingleStepsAccepted ==
    [][/\ (StepsPolar /\ PolarIsFull /\ Abs(polar'.tStep) <= 1) =>
              inBoundsPolar(grid, polar'.tStep, current_polar_voxel)
       /\ (StepsAzimuthal /\ AzimuthalIsFull /\ Abs(azimuthal'.tStep) <= 1) =>
              inBoundsAzimuthal(grid, azimuthal'.tStep, current_azimuthal_voxel)]_vars

\* A step of one section from cell k that stays within the n cells.
StaysInside(k, step, n) == k + step \in 0..(n - 1)

\* The iteration returned from the switch: a bounds check rejected its step.
Rejected == Iterates /\ voxel_intersection' # 0 /\ pc' = "done"

\* C22: on a grid of less than the full angular range a step of one section is
\* accepted by inBoundsPolar / inBoundsAzimuthal exactly when it stays within
\* the cells 0..N-1, whatever the min bound; when a step is rejected no index
\* changes, no voxel is emitted, the last voxel is closed and the walk returns.
C22_PartialRangeBounds ==
    [][/\ (StepsPolar /\ ~PolarIsFull /\ Abs(polar'.tStep) = 1) =>
              (inBoundsPolar(grid, polar'.tStep, current_polar_voxel)
                   <=> StaysInside(current_polar_voxel, polar'.tStep, grid.Nt))
       /\ (StepsAzimuthal /\ ~AzimuthalIsFull /\ Abs(azimuthal'.tStep) = 1) =>
              (inBoundsAzimuthal(grid, azimuthal'.tStep, current_azimuthal_voxel)
                   <=> StaysInside(current_azimuthal_voxel, azimuthal'.tStep, grid.Np))
       /\ Rejected =>
              /\ current_radial_voxel' = current_radial_voxel
              /\ current_polar_voxel' = current_polar_voxel
              /\ current_azimuthal_voxel' = current_azimuthal_voxel
              /\ Len(voxels') = Len(voxels)
              /\ voxels'[Len(voxels')].exit_t = t_ray_exit]_vars

\* The part of C22 about what a rejection does, which the code keeps.
C22_RejectionReturns ==
    [][Rejected =>
              /\ current_radial_voxel' = current_radial_voxel
              /\ current_polar_voxel' = current_polar_voxel
              /\ current_azimuthal_voxel' = current_azimuthal_voxel
              /\ Len(voxels') = Len(voxels)
              /\ voxels'[Len(voxels')].exit_t = t_ray_exit]_vars

\* The query point of the first angular index in plane k (2 for polar, 3 for
\* azimuthal), as a vector from the sphere centre: it lies on the circle of the
\* entry radius in the direction opposite to ray_sphere.
Sections(k) == IF k = 2 THEN grid.Nt ELSE grid.Np
TrigOf(k) == IF k = 2 THEN polarTrigValues(grid) ELSE azimuthalTrigValues(grid)
QueryDirection(k) == <<FNeg(X(Locals.ray_sphere)), FNeg(Locals.ray_sphere[k])>>
FirstIndex(k) == IF k = 2 THEN voxels[1].polar ELSE voxels[1].azimuthal

\* u x w for vectors of the plane: positive when w is counter-clockwise of u
\* by less than half a turn.
Cross(u, w) == FSub(FMul(u[1], w[2]), FMul(u[2], w[1]))

\* The query point lies in the arc between the boundaries i and i + 1 of plane
\* k, which spans at most half a turn: within Tolerance, and clear of both ends.
ArcHolds(k, i) ==
    /\ FGe(Cross(TrigOf(k)[i + 1], QueryDirection(k)), FNeg(Tolerance))
    /\ FGe(Cross(QueryDirection(k), TrigOf(k)[i + 2]), FNeg(Tolerance))
ArcHoldsClearly(k, i) ==
    /\ FGt(Cross(TrigOf(k)[i + 1], QueryDirection(k)), Tolerance)
    /\ FGt(Cross(QueryDirection(k), TrigOf(k)[i + 2]), Tolerance)

\* The walk computed the query point of plane k: the ray's times are taken in
\* a component of the direction that is not zero, and the point is not the
\* centre.
Queried(k) ==
    /\ Sections(k) >= 2
    /\ ray.direction[ray.axis] # 0
    /\ ~FEq(FAdd(Square(X(Locals.ray_sphere)), Square(Locals.ray_sphere[k])), 0)

\* C23: with N >= 2 sections, the first angular index of the walk is the index
\* of the arc that holds the query point, the lower one for a point on a
\* boundary, and a walk whose query point lies in no arc returns empty.
C23_IndexOfArc ==
    \A k \in {2, 3} :
        (pc # "call" /\ Queried(k)) =>
            /\ voxels # <<>> =>
                   /\ ArcHolds(k, FirstIndex(k))
                   /\ \A j \in 0..(FirstIndex(k) - 1) : ~ArcHoldsClearly(k, j)
            /\ (\A i \in 0..(Sections(k) - 1) : ~ArcHolds(k, i)) => voxels = <<>>

\* The part of C23 the code keeps: the same for arcs of less than half a turn.
ArcSpan(k) == IF k = 2 THEN deltaTheta(grid) ELSE deltaPhi(grid)
C23_IndexOfShortArc ==
    \A k \in {2, 3} :
        (pc # "call" /\ Queried(k) /\ 2 * ArcSpan(k) < FullCircle) =>
            /\ voxels # <<>> =>
                   /\ ArcHolds(k, FirstIndex(k))
                   /\ \A j \in 0..(FirstIndex(k) - 1) : ~ArcHoldsClearly(k, j)
            /\ (\A i \in 0..(Sections(k) - 1) : ~ArcHolds(k, i)) => voxels = <<>>

=============================================================================
